---- MODULE Spec2Model ----
(***************************************************************************)
(* Site lifecycle of py-manage-nginx: create_hosting / remove_hosting      *)
(* (hosting.py) over an abstract filesystem, with the external commands    *)
(* `nginx -t` and `systemctl reload nginx` (manager.py) as environment     *)
(* steps whose outcome is chosen nondeterministically.                     *)
(*                                                                         *)
(* Text is a sequence of one-character strings.  An Optional value is <<>> *)
(* (None) or a one-element sequence.                                       *)
(*                                                                         *)
(* The filesystem tracks the paths one site name maps to:                  *)
(*   availDir  <nginx_root>/sites-available exists                         *)
(*   enabDir   <nginx_root>/sites-enabled exists                           *)
(*   avail     entry at <nginx_root>/sites-available/<config_basename>     *)
(*   enabled   entry at <nginx_root>/sites-enabled/<config_basename>       *)
(*   baseDir   <web_root_base> exists                                      *)
(*   docroot   the child directory <web_root_base>/<site_name>             *)
(*   alog/elog <log_directory>/<site_name>.access.log / .error.log exist   *)
(* Entries have the kind the workflow expects (the enabled path holds      *)
(* nothing, a file or a symlink; the document root is nothing or a         *)
(* directory); filesystem calls other than symlink_to do not fail.         *)
(***************************************************************************)
EXTENDS Naturals, Integers, Sequences, FiniteSets, TLC

\* Longest site_name argument enumerated.
MaxNameLen == 2
\* Longest single server name enumerated.
MaxSnLen == 1
\* Longest server_names list enumerated.
MaxSnCount == 2

\* Characters site names are built from: a letter, whitespace, the path
\* separator and the dot.
NameChars == {"a", " ", "/", "."}
\* Characters server names are built from.
ServerChars == {"a", " "}
\* Characters str.strip() removes.
Whitespace == {" "}

RECURSIVE Strings(_, _)
\* All texts over chars of length at most n.
Strings(chars, n) ==
    IF n = 0 THEN {<<>>}
    ELSE LET S == Strings(chars, n - 1)
         IN  S \cup {Append(s, c) : s \in {t \in S : Len(t) = n - 1}, c \in chars}

RECURSIVE Lists(_, _)
\* All sequences over elems of length at most n.
Lists(elems, n) ==
    IF n = 0 THEN {<<>>}
    ELSE LET L == Lists(elems, n - 1)
         IN  L \cup {Append(l, e) : l \in {t \in L : Len(t) = n - 1}, e \in elems}

\* The site_name arguments: every text up to the bound.
SiteNameInputs == Strings(NameChars, MaxNameLen)

\* The site names the lifecycle is run for: a plain name, a name padded with
\* whitespace, and the parent-directory name.
SiteNames == {<<"a">>, <<" ", "a">>, <<".", ".">>}

\* The server_names arguments: one str, or a sequence of str.
Str(s) == [kind |-> "str", value |-> s]
List(l) == [kind |-> "list", value |-> l]

\* Every server_names argument up to the bounds.
ServerNameInputs ==
    {Str(s) : s \in Strings(ServerChars, MaxSnLen)}
    \cup {List(l) : l \in Lists(Strings(ServerChars, MaxSnLen), MaxSnCount)}

\* The server_names arguments the lifecycle is run with: one name, the list of
\* the end-to-end scenario (a name, the same name padded, a blank), two names,
\* the same name twice, no name, blanks only.
ServerNameSamples ==
    {Str(<<"a">>),
     List(<< <<"a">>, <<" ", "a", " ">>, <<>> >>),
     List(<< <<"b">>, <<"a">> >>),
     List(<< <<"a">>, <<"a">> >>),
     List(<<>>),
     List(<< <<" ">>, <<>> >>)}

----------------------------------------------------------------------------
\* str methods

RECURSIVE lstrip(_, _)
lstrip(s, chars) ==
    IF s # <<>> /\ Head(s) \in chars THEN lstrip(Tail(s), chars) ELSE s

RECURSIVE rstrip(_, _)
rstrip(s, chars) ==
    IF s # <<>> /\ s[Len(s)] \in chars
    THEN rstrip(SubSeq(s, 1, Len(s) - 1), chars)
    ELSE s

strip(s) == rstrip(lstrip(s, Whitespace), Whitespace)

\* str.replace(c, "")
remove_char(s, c) == SelectSeq(s, LAMBDA x : x # c)

RECURSIVE join(_, _)
\* sep.join(parts)
join(parts, sep) ==
    IF parts = <<>> THEN <<>>
    ELSE IF Len(parts) = 1 THEN parts[1]
    ELSE parts[1] \o sep \o join(Tail(parts), sep)

\* The least and the greatest element of a non-empty set of integers.
Least(S) == CHOOSE x \in S : \A y \in S : x <= y
Greatest(S) == CHOOSE x \in S : \A y \in S : y <= x

RECURSIVE split(_, _)
\* str.split(sep): the pieces between separators, empty pieces kept.
split(s, sep) ==
    LET at == {i \in 1..Len(s) : s[i] = sep}
    IN  IF at = {} THEN <<s>>
        ELSE <<SubSeq(s, 1, Least(at) - 1)>>
             \o split(SubSeq(s, Least(at) + 1, Len(s)), sep)

\* pathlib: the components of a path; empty and "." components are dropped.
PathParts(s) == SelectSeq(split(s, "/"), LAMBDA p : p # <<>> /\ p # <<".">>)

\* pathlib Path(s).name: the last component, "" when there is none.
PathName(s) ==
    LET ps == PathParts(s) IN IF ps = <<>> THEN <<>> ELSE ps[Len(ps)]

----------------------------------------------------------------------------
\* hosting.py helpers

NoExc == [type |-> "", msg |-> ""]
Exc(t, m) == [type |-> t, msg |-> m]

\* The exception _validate_site_name raises, or NoExc.
_validate_site_name_blank_only(site_name) ==
    IF strip(site_name) = <<>>
    THEN Exc("ValueError", "site_name must be a non-empty string")
    ELSE NoExc

_validate_site_name(site_name) ==
    LET stripped == strip(site_name)
    IN  IF stripped = <<>>
        THEN Exc("ValueError", "site_name must be a non-empty string")
        ELSE IF PathName(stripped) # stripped
        THEN Exc("ValueError", "site_name must not contain path separators")
        ELSE NoExc

RECURSIVE normalize_loop(_, _)
\* The loop of _normalize_server_names; seen is the set of the names kept.
normalize_loop(candidates, filtered) ==
    IF candidates = <<>> THEN filtered
    ELSE LET normalized == strip(Head(candidates))
             seen == {filtered[i] : i \in 1..Len(filtered)}
         IN  IF normalized = <<>> \/ normalized \in seen
             THEN normalize_loop(Tail(candidates), filtered)
             ELSE normalize_loop(Tail(candidates), Append(filtered, normalized))

_normalize_server_names_keep_duplicates(server_names) ==
    LET candidates == IF server_names.kind = "str"
                      THEN <<server_names.value>>
                      ELSE server_names.value
    IN  SelectSeq([i \in 1..Len(candidates) |-> strip(candidates[i])],
                  LAMBDA n : n # <<>>)

_normalize_server_names(server_names) ==
    LET candidates == IF server_names.kind = "str"
                      THEN <<server_names.value>>
                      ELSE server_names.value
    IN  normalize_loop(candidates, <<>>)

DefaultName == <<"d", "e", "f", "a", "u", "l", "t">>

RECURSIVE select_loop(_)
\* The for loop of _select_certificate_name: <<name>> when it returns, <<>>
\* when it falls through.
select_loop(server_names) ==
    IF server_names = <<>> THEN <<>>
    ELSE LET normalized == lstrip(Head(server_names), {"*", "."})
         IN  IF normalized # <<>>
             THEN <<remove_char(remove_char(normalized, "*"), "/")>>
             ELSE select_loop(Tail(server_names))

_select_certificate_name(server_names) ==
    LET found == select_loop(server_names)
        fallback == IF server_names # <<>> THEN server_names[1] ELSE DefaultName
        sanitized == remove_char(remove_char(fallback, "*"), "/")
    IN  IF found # <<>> THEN found[1]
        ELSE IF sanitized # <<>> THEN sanitized ELSE DefaultName

\* The certificate directory name under /etc/letsencrypt/live; the two paths
\* are <dir>/fullchain.pem and <dir>/privkey.pem.
_default_certificate_paths(server_names) ==
    _select_certificate_name(server_names)

\* The text written to the configuration file, by the values substituted
\* into the template.  ssl is <<>> without TLS, else <<certificate dir>>.
_render_config(server_names, document_root, ssl) ==
    [server_name |-> join(server_names, <<" ">>),
     root        |-> document_root,
     ssl         |-> ssl]

\* Text of a configuration file that was not rendered by this program.
ExistingText == [server_name |-> <<"?">>, root |-> <<"?">>, ssl |-> <<>>]
NoText == [server_name |-> <<>>, root |-> <<>>, ssl |-> <<>>]

----------------------------------------------------------------------------
\* manager.py: the command runner

\* What can happen to a started command.
Outcomes == {"exit0", "exit1", "notfound", "timeout"}

\* _run_command: the CommandResult for each outcome of subprocess.run.
_run_command(command, outcome) ==
    IF outcome = "notfound"
    THEN [command |-> command, returncode |-> <<>>, stdout |-> "", stderr |-> "",
          error |-> <<"command not found">>]
    ELSE IF outcome = "timeout"
    THEN [command |-> command, returncode |-> <<>>, stdout |-> "partial",
          stderr |-> "partial", error |-> <<"command timed out">>]
    ELSE [command |-> command,
          returncode |-> IF outcome = "exit0" THEN <<0>> ELSE <<1>>,
          stdout |-> "out", stderr |-> "err", error |-> <<>>]

\* CommandResult.ok
ok_always(result) == TRUE

ok_unless_exit_code(result) == result.returncode \notin {<<1>>}

ok(result) == result.error = <<>> /\ result.returncode = <<0>>

test_nginx_configuration(outcome) == _run_command("test", outcome)

reload_nginx(outcome) == _run_command("reload", outcome)

----------------------------------------------------------------------------
\* manager.py: certificate inspection

\* Most tokens in one enumerated configuration line.
MaxLineTokens == 4
\* Most lines in one enumerated multi-line configuration file.
MaxLines == 2
\* Most configuration paths in one sites argument.
MaxConfigs == 2
\* Timestamps range over the days 0..MaxDays.
MaxDays == 2
\* Seconds in a day, the divisor of line 213.
SecondsPerDay == 86400

\* The directive name, and what the ssl_certificate_key directive adds to it.
Keyword == <<"s", "s", "l", "_", "c", "e", "r", "t", "i", "f", "i", "c", "a", "t", "e">>
KeySuffix == <<"_", "k", "e", "y">>

\* What configuration lines are built from: the directive name, the key
\* suffix, a blank, the comment marker, the terminator and a path character.
LineTokens == {Keyword, KeySuffix, <<" ">>, <<"#">>, <<";">>, <<"p">>}

\* Every line of at most MaxLineTokens tokens.
ConfigLines == {join(ts, <<>>) : ts \in Lists(LineTokens, MaxLineTokens)}

\* Lines of the test configurations: a directive, a second directive with
\* blanks around its value, the key directive, a commented-out directive, a
\* directive with a trailing comment, a doubled terminator, an empty line.
SampleLines ==
    {Keyword \o <<" ", "p", ";">>,
     Keyword \o <<" ", "p", ";", ";">>,
     <<" ">> \o Keyword \o <<" ", "q", " ", ";">>,
     Keyword \o KeySuffix \o <<" ", "k", ";">>,
     <<"#", " ">> \o Keyword \o <<" ", "z", ";">>,
     Keyword \o <<" ", "p", ";", " ", "#", "c">>,
     <<>>}

\* What a configuration path can be: nothing there; a path stat() fails on
\* for another reason than absence (a parent directory that cannot be
\* searched, a name that is too long); an entry that cannot be opened and
\* read (no read permission, a directory); bytes that do not decode; text.
ConfigState(kind, lines) == [kind |-> kind, lines |-> lines]
ConfigKinds == {"missing", "inaccessible", "unreadable", "nottext", "text"}

\* The configurations _extract_certificate_paths is applied to.
ExtractInputs ==
    {ConfigState(k, <<>>) : k \in ConfigKinds}
    \cup {ConfigState("text", <<l>>) : l \in ConfigLines}
    \cup {ConfigState("text", ls) : ls \in Lists(SampleLines, MaxLines)}

\* What a function call produces: a value, or an exception.
Returned(v) == [exc |-> NoExc, value |-> v]
Raised(e) == [exc |-> e, value |-> <<>>]

\* str.startswith / str.endswith
startswith(s, prefix) ==
    Len(s) >= Len(prefix) /\ SubSeq(s, 1, Len(prefix)) = prefix
endswith(s, suffix) ==
    Len(s) >= Len(suffix) /\ SubSeq(s, Len(s) - Len(suffix) + 1, Len(s)) = suffix

\* pathlib Path(s): empty and "." components dropped, "." for no component.
Path(s) ==
    LET ps == PathParts(s)
        anchor == IF s # <<>> /\ Head(s) = "/" THEN <<"/">> ELSE <<>>
    IN  IF ps = <<>> THEN (IF anchor # <<>> THEN anchor ELSE <<".">>)
        ELSE anchor \o join(ps, <<"/">>)

\* Path.exists(): False for an absent path, an OSError for any other stat()
\* failure.
exists_raises(state) == state.kind = "inaccessible"
exists(state) == state.kind # "missing"

\* Lines 158-165 for one line: <<path>> when the line is a directive, <<>>
\* when it is skipped.
directive_any_prefix(line) ==
    LET stripped == strip(split(line, "#")[1])
    IN  IF stripped = <<>> THEN <<>>
        ELSE IF startswith(stripped, Keyword)
        THEN LET value == strip(SubSeq(stripped, Len(Keyword) + 1, Len(stripped)))
             IN  <<Path(IF endswith(value, <<";">>)
                        THEN strip(SubSeq(value, 1, Len(value) - 1))
                        ELSE value)>>
        ELSE <<>>

directive(line) ==
    LET stripped == strip(split(line, "#")[1])
        prefix == Keyword \o <<" ">>
    IN  IF stripped = <<>> THEN <<>>
        ELSE IF startswith(stripped, prefix)
        THEN LET value == strip(SubSeq(stripped, Len(prefix) + 1, Len(stripped)))
             IN  <<Path(IF endswith(value, <<";">>)
                        THEN strip(SubSeq(value, 1, Len(value) - 1))
                        ELSE value)>>
        ELSE <<>>

RECURSIVE extract_loop(_)
\* The for loop of lines 157-165.
extract_loop(lines) ==
    IF lines = <<>> THEN <<>>
    ELSE directive(Head(lines)) \o extract_loop(Tail(lines))

\* read_text() raises for a path that cannot be opened or read; only
\* UnicodeDecodeError is caught (line 166).
_extract_certificate_paths(config) ==
    IF config.kind = "text" THEN Returned(extract_loop(config.lines))
    ELSE IF config.kind = "nottext" THEN Returned(<<>>)
    ELSE IF config.kind = "missing"
    THEN Raised(Exc("FileNotFoundError", "No such file or directory"))
    ELSE Raised(Exc("OSError", "cannot read the configuration"))

\* A timestamp string of the decoded certificate: the empty string, a string
\* strptime rejects, or a string in OpenSSL's format naming the instant t
\* (seconds on the UTC time line).
EmptyText == [kind |-> "empty", t |-> 0]
GarbageText == [kind |-> "garbage", t |-> 0]
TimeText(t) == [kind |-> "time", t |-> t]

\* Instants at, just after and just before midnight of the days 0..MaxDays.
Instants ==
    {d * SecondsPerDay + s : d \in 0..MaxDays, s \in {0, 1, SecondsPerDay - 1}}

\* details.get(...): None, or a timestamp string.
TimestampValues ==
    {<<>>, <<EmptyText>>, <<GarbageText>>} \cup {<<TimeText(t)>> : t \in Instants}

\* Lines 226-232: None for None, "" and a string strptime rejects.
_parse_openssl_datetime(value) ==
    IF value = <<>> \/ value[1].kind = "empty" THEN <<>>
    ELSE IF value[1].kind = "time" THEN <<value[1].t>>
    ELSE <<>>

\* What a certificate path can be: nothing there; a path stat() fails on for
\* another reason than absence; a file the decoder reports FileNotFoundError
\* for; a file the decoder rejects with a message; a certificate.
CertState(kind, msg, notBefore, notAfter) ==
    [kind |-> kind, msg |-> msg, notBefore |-> notBefore, notAfter |-> notAfter]
CertStates ==
    {CertState(k, "", <<>>, <<>>) : k \in {"missing", "inaccessible", "vanished"}}
    \cup {CertState("undecodable", "bad certificate", <<>>, <<>>)}
    \cup {CertState("decoded", "", nb, na) : nb, na \in TimestampValues}

CertificateStatus(site_name, certificate, exists_, not_before, not_after, days_remaining, error) ==
    [site |-> site_name, certificate |-> certificate, exists |-> exists_,
     not_before |-> not_before, not_after |-> not_after,
     days_remaining |-> days_remaining, error |-> error]

\* Python's // on the seconds of a timedelta
floordiv_truncating(a, b) == IF a >= 0 THEN a \div b ELSE -((-a) \div b)

floordiv(a, b) == a \div b

\* Lines 172-223.  cert_path.exists() at line 173 is outside the try.
_build_certificate_status(site_name, cert_path, cert, now) ==
    LET absent == CertificateStatus(site_name, <<cert_path>>, FALSE, <<>>, <<>>, <<>>,
                                    <<"certificate file does not exist">>)
        not_before == _parse_openssl_datetime(cert.notBefore)
        not_after == _parse_openssl_datetime(cert.notAfter)
        days_remaining == IF not_after = <<>> THEN <<>>
                          ELSE <<floordiv(not_after[1] - now, SecondsPerDay)>>
    IN  IF exists_raises(cert) THEN Raised(Exc("OSError", "cannot stat the certificate"))
        ELSE IF ~exists(cert) THEN Returned(absent)
        ELSE IF cert.kind = "vanished" THEN Returned(absent)
        ELSE IF cert.kind = "undecodable"
        THEN Returned(CertificateStatus(site_name, <<cert_path>>, TRUE, <<>>, <<>>, <<>>,
                                        <<cert.msg>>))
        ELSE Returned(CertificateStatus(site_name, <<cert_path>>, TRUE, not_before,
                                        not_after, days_remaining, <<>>))

\* A configuration path of the sites argument: its name and what is there.
ConfigPath(name, state) == [name |-> name, state |-> state]

\* The configurations check_certificate_status is applied to: absent,
\* inaccessible, unreadable, not text, without a directive, with one, with the
\* same one twice among other lines.
SampleConfigStates ==
    {ConfigState(k, <<>>) : k \in ConfigKinds \ {"text"}}
    \cup {ConfigState("text", << Keyword \o KeySuffix \o <<" ", "k", ";">> >>),
          ConfigState("text", << Keyword \o <<" ", "p", ";">> >>),
          ConfigState("text", << Keyword \o <<" ", "p", ";">>,
                                 <<"#">>,
                                 Keyword \o <<" ", "q">>,
                                 Keyword \o <<" ", "p", ";">> >>)}
SitesInputs ==
    Lists({ConfigPath(n, s) : n \in {"a", "b"}, s \in SampleConfigStates}, MaxConfigs)

\* The certificate files the configurations of SitesInputs point at.
SampleCertStates ==
    {CertState("missing", "", <<>>, <<>>),
     CertState("inaccessible", "", <<>>, <<>>),
     CertState("undecodable", "bad certificate", <<>>, <<>>),
     CertState("decoded", "", <<TimeText(0)>>, <<TimeText(SecondsPerDay)>>)}

\* Lines 97-128 for one configuration path; config_path.exists() at line 98
\* and _extract_certificate_paths at line 112 are not guarded.
RECURSIVE build_loop(_, _, _, _)
build_loop(site_name, certificate_paths, cert, now) ==
    IF certificate_paths = <<>> THEN Returned(<<>>)
    ELSE LET status == _build_certificate_status(site_name, Head(certificate_paths), cert, now)
             rest == build_loop(site_name, Tail(certificate_paths), cert, now)
         IN  IF status.exc # NoExc THEN status
             ELSE IF rest.exc # NoExc THEN rest
             ELSE Returned(<<status.value>> \o rest.value)

config_statuses(config_path, cert, now) ==
    LET site_name == config_path.name
        none(error) == CertificateStatus(site_name, <<>>, FALSE, <<>>, <<>>, <<>>, <<error>>)
        certificate_paths == _extract_certificate_paths(config_path.state)
    IN  IF exists_raises(config_path.state)
        THEN Raised(Exc("OSError", "cannot stat the configuration"))
        ELSE IF ~exists(config_path.state)
        THEN Returned(<<none("configuration path does not exist")>>)
        ELSE IF certificate_paths.exc # NoExc THEN certificate_paths
        ELSE IF certificate_paths.value = <<>>
        THEN Returned(<<none("no ssl_certificate directive found")>>)
        ELSE build_loop(site_name, certificate_paths.value, cert, now)

RECURSIVE check_certificate_status(_, _, _)
\* Lines 93-130 with sites given; cert is what every certificate path holds.
check_certificate_status(sites, cert, now) ==
    IF sites = <<>> THEN Returned(<<>>)
    ELSE LET group == config_statuses(Head(sites), cert, now)
             rest == check_certificate_status(Tail(sites), cert, now)
         IN  IF group.exc # NoExc THEN group
             ELSE IF rest.exc # NoExc THEN rest
             ELSE Returned(group.value \o rest.value)

----------------------------------------------------------------------------
\* The filesystem

NoFile == [kind |-> "none", text |-> NoText]
File(text) == [kind |-> "file", text |-> text]
NoLink == [kind |-> "none", target |-> ""]
Symlink(target) == [kind |-> "symlink", target |-> target]
StrayFile == [kind |-> "file", target |-> ""]

\* The filesystems a run starts from.  A symlink at the enabled path points at
\* the available path (dangling when that file is absent).
FileSystems ==
    {f \in [availDir : BOOLEAN, enabDir : BOOLEAN,
            avail    : {NoFile, File(ExistingText)},
            enabled  : {NoLink, StrayFile, Symlink("available")},
            baseDir  : BOOLEAN,
            docroot  : {"none", "full"},
            alog     : BOOLEAN, elog : BOOLEAN] :
        /\ f.avail.kind # "none" => f.availDir
        /\ f.enabled.kind # "none" => f.enabDir
        /\ f.docroot # "none" => f.baseDir}

\* Two filesystems, one with nothing of the site and one with everything.
SampleFileSystems ==
    {f \in FileSystems :
        \/ /\ f.availDir /\ f.enabDir /\ f.baseDir /\ f.alog /\ f.elog
           /\ f.avail.kind = "file" /\ f.enabled.kind = "symlink" /\ f.docroot = "full"
        \/ /\ ~f.availDir /\ ~f.enabDir /\ ~f.baseDir /\ ~f.alog /\ ~f.elog}

\* Placeholder where no filesystem snapshot is kept.
NullFS ==
    [availDir |-> FALSE, enabDir |-> FALSE, avail |-> NoFile, enabled |-> NoLink,
     baseDir |-> FALSE, docroot |-> "none", alog |-> FALSE, elog |-> FALSE]

\* web_root_base / site_name names the parent of web_root_base when the
\* site name is "..": the kernel resolves the component, pathlib keeps it.
ResolvesToParent(site_name) == site_name = <<".", ".">>

\* sites_available_path.exists()
available_exists(f) == f.avail.kind # "none"

\* sites_enabled_path.exists() or sites_enabled_path.is_symlink()
enabled_present_never(f) == FALSE

enabled_present(f) == f.enabled.kind # "none"

\* document_root.exists(); the parent of an existing directory exists.
document_root_exists_always(f, site_name) == TRUE

document_root_exists(f, site_name) ==
    IF ResolvesToParent(site_name) THEN f.baseDir ELSE f.docroot # "none"

\* The three mkdir(parents=True, exist_ok=True) calls of create_hosting.
mkdirs(f, site_name) ==
    [f EXCEPT !.availDir = TRUE, !.enabDir = TRUE, !.baseDir = TRUE,
              !.docroot = IF ResolvesToParent(site_name) THEN @
                          ELSE IF @ = "none" THEN "empty" ELSE @]

\* sites_available_path.write_text(rendered_config)
write_text_nothing(f, text) == f

write_text(f, text) == [f EXCEPT !.avail = File(text)]

\* sites_enabled_path.unlink() / unlink(missing_ok=True)
unlink_enabled_keep(f) == f

unlink_enabled(f) == [f EXCEPT !.enabled = NoLink]

\* sites_available_path.unlink(missing_ok=True)
unlink_available_keep(f) == f

unlink_available(f) == [f EXCEPT !.avail = NoFile]

\* sites_enabled_path.symlink_to(sites_available_path)
symlink_to_nothing(f) == f

symlink_to_copy(f) == [f EXCEPT !.enabled = StrayFile]

symlink_to(f) == [f EXCEPT !.enabled = Symlink("available")]

\* shutil.rmtree(document_root): the directory the path names goes, with
\* everything below it.
rmtree_keep(f, site_name) == f

rmtree(f, site_name) ==
    IF ResolvesToParent(site_name)
    THEN [f EXCEPT !.baseDir = FALSE, !.docroot = "none"]
    ELSE [f EXCEPT !.docroot = "none"]

\* rmtree raises FileNotFoundError on a path that does not exist.  It ends
\* with rmdir(document_root): for "<base>/.." the path no longer resolves once
\* <base> is gone, and FileNotFoundError is raised as well.
rmtree_raises(f, site_name) ==
    ResolvesToParent(site_name) \/ ~document_root_exists(f, site_name)

\* access_log_path.unlink(missing_ok=True); error_log_path.unlink(missing_ok=True)
unlink_logs_access_only(f) == [f EXCEPT !.alog = FALSE]

unlink_logs(f) == [f EXCEPT !.alog = FALSE, !.elog = FALSE]

----------------------------------------------------------------------------
\* State

VARIABLES
    site,     \* the site_name argument of the calls of this run
    fs,       \* the filesystem
    pc,       \* position of the running call; "idle", "returned", "raised" between calls
    op,       \* "create" or "remove": the running or last call
    exc,      \* the exception the call raised
    ret,      \* <<CommandResult>> the call returned
    cmds,     \* the CommandResults of the commands the call has run, in order
    args,     \* <<server_names>> as line 143 reads it; not read afterwards
    names,    \* normalized_server_names
    isCert,   \* isCert as line 166 reads it
    pre,      \* the filesystem when the call started
    prev,     \* the call before: its op, whether it returned, and for a create
              \* that returned the filesystem it started from; blocked: some
              \* earlier create_hosting failed at a command and no
              \* remove_hosting has run since
    fn,       \* the helper function applied last, "none" before
    input,    \* the arguments of the helper function
    output    \* what the helper function returned or raised

vars == <<site, fs, pc, op, exc, ret, cmds, args, names, isCert, pre, prev, fn, input, output>>

Between == {"idle", "returned", "raised"}

NoPrev == [op |-> "none", returned |-> FALSE, pre |-> NullFS, blocked |-> FALSE]

InitCall ==
    /\ pc = "idle"
    /\ op = "none"
    /\ exc = NoExc
    /\ ret = <<>>
    /\ cmds = <<>>
    /\ args = <<>>
    /\ names = <<>>
    /\ isCert = FALSE
    /\ pre = fs
    /\ prev = NoPrev
    /\ fn = "none"
    /\ output = <<>>

Init ==
    /\ input = <<>>
    /\ site \in SiteNames
    /\ fs \in FileSystems
    /\ InitCall

\* One plain site on the sample filesystems.
InitInputs ==
    /\ input = <<>>
    /\ site = <<"a">>
    /\ fs \in SampleFileSystems
    /\ InitCall

\* Every site_name argument up to the bound, on the sample filesystems.
InitValidate ==
    /\ input = <<>>
    /\ site \in SiteNameInputs
    /\ fs \in SampleFileSystems
    /\ InitCall


\* A call starts when no call is running.
CallStart(newop) ==
    /\ pc \in Between
    /\ op' = newop
    /\ pre' = fs
    /\ cmds' = <<>>
    /\ ret' = <<>>
    /\ prev' = IF pc = "idle" THEN NoPrev
               ELSE [op |-> op, returned |-> pc = "returned",
                     pre |-> IF op = "create" /\ pc = "returned" THEN pre ELSE NullFS,
                     blocked |-> IF op = "create" /\ pc = "raised" /\ cmds # <<>>
                                 THEN TRUE
                                 ELSE IF op = "remove" THEN FALSE ELSE prev.blocked]

Raise(e) == pc' = "raised" /\ exc' = e

----------------------------------------------------------------------------
\* create_hosting

\* Lines 141-157: the checks made before anything is touched.
create_precheck_overwrite(site_name, normalized, f) ==
    IF _validate_site_name(site_name) # NoExc THEN _validate_site_name(site_name)
    ELSE IF normalized = <<>>
    THEN Exc("ValueError", "server_names must contain at least one non-empty name")
    ELSE NoExc

create_precheck_collision_first(site_name, normalized, f) ==
    IF _validate_site_name(site_name) # NoExc THEN _validate_site_name(site_name)
    ELSE IF available_exists(f)
    THEN Exc("FileExistsError", "configuration already exists")
    ELSE IF normalized = <<>>
    THEN Exc("ValueError", "server_names must contain at least one non-empty name")
    ELSE NoExc

create_precheck_any_names(site_name, normalized, f) ==
    IF _validate_site_name(site_name) # NoExc THEN _validate_site_name(site_name)
    ELSE IF available_exists(f)
    THEN Exc("FileExistsError", "configuration already exists")
    ELSE NoExc

create_precheck(site_name, normalized, f) ==
    IF _validate_site_name(site_name) # NoExc THEN _validate_site_name(site_name)
    ELSE IF normalized = <<>>
    THEN Exc("ValueError", "server_names must contain at least one non-empty name")
    ELSE IF available_exists(f)
    THEN Exc("FileExistsError", "configuration already exists")
    ELSE NoExc

CreateBegin(server_names, cert) ==
    LET normalized == IF _validate_site_name(site) # NoExc THEN <<>>
                      ELSE _normalize_server_names(server_names)
        e == create_precheck(site, normalized, fs)
    IN  /\ CallStart("create")
        /\ args' = IF _validate_site_name(site) # NoExc THEN <<>> ELSE <<server_names>>
        /\ names' = normalized
        /\ IF e # NoExc
           THEN Raise(e) /\ isCert' = FALSE
           ELSE pc' = "c_mkdir" /\ exc' = NoExc /\ isCert' = cert
        /\ UNCHANGED <<site, fs, fn, input, output>>

\* Lines 159-161.  server_names is not read after line 143.
CreateMkdirs ==
    /\ pc = "c_mkdir"
    /\ fs' = mkdirs(fs, site)
    /\ args' = <<>>
    /\ pc' = "c_write"
    /\ UNCHANGED <<site, op, exc, ret, cmds, names, isCert, pre, prev, fn, input, output>>

\* The text create_hosting renders (lines 163-186).
rendered_config(server_names, site_name, cert) ==
    _render_config(server_names, site_name,
                   IF cert THEN <<_default_certificate_paths(server_names)>> ELSE <<>>)

\* Line 187.
CreateWrite ==
    /\ pc = "c_write"
    /\ fs' = write_text(fs, rendered_config(names, site, isCert))
    /\ pc' = "c_unlink"
    /\ UNCHANGED <<site, op, exc, ret, cmds, args, names, isCert, pre, prev, fn, input, output>>

\* Lines 190-191.
CreateUnlinkStale ==
    /\ pc = "c_unlink"
    /\ fs' = IF enabled_present(fs) THEN unlink_enabled(fs) ELSE fs
    /\ pc' = "c_link"
    /\ UNCHANGED <<site, op, exc, ret, cmds, args, names, isCert, pre, prev, fn, input, output>>

\* Lines 193-197: symlink_to succeeds, or raises OSError.
CreateSymlink ==
    /\ pc = "c_link"
    /\ \E success \in BOOLEAN :
         IF success
         THEN fs' = symlink_to(fs) /\ pc' = "c_test" /\ exc' = exc
         ELSE fs' = unlink_available(fs)
              /\ Raise(Exc("RuntimeError", "failed to enable site"))
    /\ UNCHANGED <<site, op, ret, cmds, args, names, isCert, pre, prev, fn, input, output>>

\* Lines 199-210.
CreateTest ==
    /\ pc = "c_test"
    /\ \E outcome \in Outcomes :
         LET test_result == test_nginx_configuration(outcome)
         IN  /\ cmds' = Append(cmds, test_result)
             /\ IF ~ok(test_result)
                THEN fs' = unlink_enabled(fs)
                     /\ Raise(Exc("RuntimeError", "nginx configuration test failed"))
                ELSE fs' = fs /\ pc' = "c_reload" /\ exc' = exc
    /\ UNCHANGED <<site, op, ret, args, names, isCert, pre, prev, fn, input, output>>

\* Lines 212-219.
CreateReload ==
    /\ pc = "c_reload"
    /\ \E outcome \in Outcomes :
         LET reload_result == reload_nginx(outcome)
         IN  /\ cmds' = Append(cmds, reload_result)
             /\ IF ~ok(reload_result)
                THEN Raise(Exc("RuntimeError", "failed to reload nginx")) /\ ret' = ret
                ELSE pc' = "returned" /\ ret' = <<reload_result>> /\ exc' = exc
    /\ UNCHANGED <<site, fs, op, args, names, isCert, pre, prev, fn, input, output>>

----------------------------------------------------------------------------
\* remove_hosting

\* Lines 253-261.
RemoveBegin ==
    LET e == _validate_site_name(site)
    IN  /\ CallStart("remove")
        /\ args' = <<>>
        /\ names' = <<>>
        /\ isCert' = FALSE
        /\ IF e # NoExc THEN Raise(e) ELSE pc' = "r_enabled" /\ exc' = NoExc
        /\ UNCHANGED <<site, fs, fn, input, output>>

\* Line 263.
RemoveUnlinkEnabled ==
    /\ pc = "r_enabled"
    /\ fs' = unlink_enabled(fs)
    /\ pc' = "r_available"
    /\ UNCHANGED <<site, op, exc, ret, cmds, args, names, isCert, pre, prev, fn, input, output>>

\* Line 264.
RemoveUnlinkAvailable ==
    /\ pc = "r_available"
    /\ fs' = unlink_available(fs)
    /\ pc' = "r_docroot"
    /\ UNCHANGED <<site, op, exc, ret, cmds, args, names, isCert, pre, prev, fn, input, output>>

\* Lines 267-268.
RemoveDocumentRoot ==
    /\ pc = "r_docroot"
    /\ IF document_root_exists(fs, site)
       THEN /\ fs' = rmtree(fs, site)
            /\ IF rmtree_raises(fs, site)
               THEN Raise(Exc("FileNotFoundError", "No such file or directory"))
               ELSE pc' = "r_logs" /\ exc' = exc
       ELSE fs' = fs /\ pc' = "r_logs" /\ exc' = exc
    /\ UNCHANGED <<site, op, ret, cmds, args, names, isCert, pre, prev, fn, input, output>>

\* Lines 270-271.
RemoveLogs ==
    /\ pc = "r_logs"
    /\ fs' = unlink_logs(fs)
    /\ pc' = "r_test"
    /\ UNCHANGED <<site, op, exc, ret, cmds, args, names, isCert, pre, prev, fn, input, output>>

\* Lines 273-282.
RemoveTest ==
    /\ pc = "r_test"
    /\ \E outcome \in Outcomes :
         LET test_result == test_nginx_configuration(outcome)
         IN  /\ cmds' = Append(cmds, test_result)
             /\ IF ~ok(test_result)
                THEN Raise(Exc("RuntimeError",
                               "nginx configuration test failed after removal"))
                ELSE pc' = "r_reload" /\ exc' = exc
    /\ UNCHANGED <<site, fs, op, ret, args, names, isCert, pre, prev, fn, input, output>>

\* Lines 284-291.
RemoveReload ==
    /\ pc = "r_reload"
    /\ \E outcome \in Outcomes :
         LET reload_result == reload_nginx(outcome)
         IN  /\ cmds' = Append(cmds, reload_result)
             /\ IF ~ok(reload_result)
                THEN Raise(Exc("RuntimeError", "failed to reload nginx after removal"))
                     /\ ret' = ret
                ELSE pc' = "returned" /\ ret' = <<reload_result>> /\ exc' = exc
    /\ UNCHANGED <<site, fs, op, args, names, isCert, pre, prev, fn, input, output>>

----------------------------------------------------------------------------

\* The steps of a running call.
Step ==
    \/ CreateMkdirs
    \/ CreateWrite
    \/ CreateUnlinkStale
    \/ CreateSymlink
    \/ CreateTest
    \/ CreateReload
    \/ RemoveUnlinkEnabled
    \/ RemoveUnlinkAvailable
    \/ RemoveDocumentRoot
    \/ RemoveLogs
    \/ RemoveTest
    \/ RemoveReload

Next ==
    \/ \E server_names \in ServerNameSamples, cert \in BOOLEAN :
         CreateBegin(server_names, cert)
    \/ RemoveBegin
    \/ Step

\* The same calls, create_hosting taking every server_names up to the bounds.
NextInputs ==
    \/ \E server_names \in ServerNameInputs, cert \in BOOLEAN :
         CreateBegin(server_names, cert)
    \/ RemoveBegin
    \/ Step

\* The lifecycle of the sample sites on every starting filesystem.
Spec == Init /\ [][Next]_vars

\* Every site_name argument.
SpecValidate == InitValidate /\ [][Next]_vars

\* Every server_names argument.
SpecInputs == InitInputs /\ [][NextInputs]_vars

\* A filesystem that holds nothing of the site: no entry at the enabled
\* path, no configuration, no document root, no log.
Fresh(f, site_name) ==
    /\ f.enabled.kind = "none" /\ f.avail.kind = "none"
    /\ ~document_root_exists(f, site_name)
    /\ ~f.alog /\ ~f.elog

\* The sample sites, each starting with none of its artifacts.
InitFresh ==
    /\ input = <<>>
    /\ site \in SiteNames
    /\ fs \in {f \in FileSystems : Fresh(f, site)}
    /\ InitCall

\* The lifecycle of a site that starts with no artifact.
SpecFresh == InitFresh /\ [][Next]_vars

----------------------------------------------------------------------------
\* Applications of the helper functions

\* A run of the helper functions: no site operation is running.
InitHelpers ==
    /\ input = <<>>
    /\ site = <<"a">>
    /\ fs = NullFS
    /\ InitCall

\* One call of helper f on arguments in, producing out; a run makes one call.
Apply(f, in, out) ==
    /\ fn = "none"
    /\ fn' = f
    /\ input' = in
    /\ output' = out
    /\ UNCHANGED <<site, fs, pc, op, exc, ret, cmds, args, names, isCert, pre, prev>>

ExtractCertificatePaths ==
    \E config \in ExtractInputs :
        Apply("_extract_certificate_paths", config, _extract_certificate_paths(config))

BuildCertificateStatus ==
    \E cert \in CertStates, now \in Instants :
        Apply("_build_certificate_status", [cert |-> cert, now |-> now],
              _build_certificate_status(<<"a">>, <<"p">>, cert, now))

CheckCertificateStatus ==
    \E sites \in SitesInputs, cert \in SampleCertStates :
        Apply("check_certificate_status", [sites |-> sites, cert |-> cert],
              check_certificate_status(sites, cert, 0))

NextCertificates ==
    \/ ExtractCertificatePaths
    \/ BuildCertificateStatus
    \/ CheckCertificateStatus

\* Certificate inspection on every enumerated input.
SpecCertificates == InitHelpers /\ [][NextCertificates]_vars

----------------------------------------------------------------------------
\* create_hosting called with certificate path keywords

\* The parameters of create_hosting (lines 69-82).
Parameters ==
    {"site_name", "server_names", "nginx_root", "web_root_base", "log_directory",
     "config_filename", "template", "isCert", "use_sudo", "nginx_binary", "controller"}

\* The keywords a caller names the certificate and its key with.
CertificateKeywords == {"ssl_certificate_path", "ssl_certificate_key_path"}

\* The keywords of the calls made: the call of test_create_hosting_with_cert,
\* a call naming only the certificate, a call with a keyword of no meaning.
KeywordSets ==
    {{"site_name", "server_names", "nginx_root", "web_root_base", "log_directory",
      "isCert", "ssl_certificate_path", "ssl_certificate_key_path", "use_sudo",
      "nginx_binary", "controller"},
     {"site_name", "server_names", "ssl_certificate_path"},
     {"site_name", "server_names", "document_root"}}

\* Python's argument binding: a keyword that is no parameter is a TypeError
\* raised before the body runs.
bind(keywords) ==
    IF keywords \subseteq Parameters THEN NoExc
    ELSE Exc("TypeError", "create_hosting() got an unexpected keyword argument")

\* A create_hosting call whose keywords do not bind; one that binds is
\* CreateBegin.
CreateUnbound(keywords) ==
    /\ bind(keywords) # NoExc
    /\ CallStart("create")
    /\ Raise(bind(keywords))
    /\ input' = keywords
    /\ args' = <<>>
    /\ names' = <<>>
    /\ isCert' = FALSE
    /\ UNCHANGED <<site, fs, fn, output>>

NextKeywords ==
    \/ \E server_names \in ServerNameSamples, cert \in BOOLEAN :
         CreateBegin(server_names, cert)
    \/ \E keywords \in KeywordSets : CreateUnbound(keywords)
    \/ RemoveBegin
    \/ Step

\* The lifecycle of one site with calls that name certificate paths.
SpecKeywords == InitInputs /\ [][NextKeywords]_vars

----------------------------------------------------------------------------
\* Commands that cannot be started

\* What subprocess.run raises for a command that is found but cannot be
\* executed (no execute permission, a directory, a file the kernel cannot
\* run): an OSError that is neither FileNotFoundError nor TimeoutExpired.
StartFailure == Exc("PermissionError", "Permission denied")

\* A command step whose command cannot be started.  No except clause of
\* lines 255-272 matches, and neither create_hosting nor remove_hosting
\* catches anything around the call: the exception leaves the running call
\* with no CommandResult made.
CommandUnstartable ==
    /\ pc \in {"c_test", "c_reload", "r_test", "r_reload"}
    /\ Raise(StartFailure)
    /\ UNCHANGED <<site, fs, op, ret, cmds, args, names, isCert, pre, prev, fn, input, output>>

NextRunner ==
    \/ \E server_names \in ServerNameSamples, cert \in BOOLEAN :
         CreateBegin(server_names, cert)
    \/ RemoveBegin
    \/ Step
    \/ CommandUnstartable

\* The lifecycle of one site with commands that may not start.
SpecRunner == InitInputs /\ [][NextRunner]_vars

----------------------------------------------------------------------------
\* manager.py: list_sites

\* Most entries in an enumerated directory.
MaxEntries == 2

\* Code points of the characters entry names are built from.
Code(c) == CASE c = "." -> 46 [] c = "B" -> 66 [] c = "a" -> 97 [] c = "b" -> 98

\* Names of directory entries.
EntryNames == {<<"B">>, <<"a">>, <<"a", "b">>, <<"b">>}

\* What a directory entry can be: a regular file, a directory, a FIFO, or a
\* symbolic link to a file, to a directory or to nothing.
EntryKinds ==
    {[kind |-> "file", target |-> "none"], [kind |-> "dir", target |-> "none"],
     [kind |-> "fifo", target |-> "none"], [kind |-> "link", target |-> "file"],
     [kind |-> "link", target |-> "dir"], [kind |-> "link", target |-> "none"]}

Entry(name, k) == [name |-> name, kind |-> k.kind, target |-> k.target]

\* The directories of at most MaxEntries entries, no name twice.
Directories ==
    {d \in SUBSET {Entry(n, k) : n \in EntryNames, k \in EntryKinds} :
        /\ Cardinality(d) <= MaxEntries
        /\ \A e1, e2 \in d : e1.name = e2.name => e1 = e2}

\* What root / directory can be: nothing, a file, or a directory.
BaseStates ==
    {[kind |-> "missing", entries |-> {}], [kind |-> "file", entries |-> {}]}
    \cup {[kind |-> "dir", entries |-> d] : d \in Directories}

\* Path.is_dir()
is_dir(base) == base.kind = "dir"

\* Path.is_file() follows symbolic links; Path.is_symlink() does not.
is_file(entry) ==
    entry.kind = "file" \/ (entry.kind = "link" /\ entry.target = "file")
is_symlink(entry) == entry.kind = "link"

\* The orders iterdir() can yield the entries in.
iterdir(base) ==
    {order \in [1..Cardinality(base.entries) -> base.entries] :
        \A i, j \in 1..Cardinality(base.entries) : order[i] = order[j] => i = j}

RECURSIVE name_lt(_, _)
\* Path.__lt__ for two entries of one directory: the names compared as str.
name_lt(a, b) ==
    IF b = <<>> THEN FALSE
    ELSE IF a = <<>> THEN TRUE
    ELSE IF Code(Head(a)) # Code(Head(b)) THEN Code(Head(a)) < Code(Head(b))
    ELSE name_lt(Tail(a), Tail(b))

RECURSIVE insert(_, _)
insert(entry, ordered) ==
    IF ordered = <<>> THEN <<entry>>
    ELSE IF name_lt(entry.name, Head(ordered).name) THEN <<entry>> \o ordered
    ELSE <<Head(ordered)>> \o insert(entry, Tail(ordered))

RECURSIVE sorted(_)
\* sorted(): the entries in ascending order.
sorted(entries) ==
    IF entries = <<>> THEN <<>>
    ELSE insert(Head(entries), sorted(Tail(entries)))

\* Line 72.
listed_files_only(entry) == is_file(entry)

listed(entry) == is_file(entry) \/ is_symlink(entry)

\* Lines 65-74, on the order iterdir() yielded.
list_sites(base, order) ==
    IF ~is_dir(base) THEN <<>>
    ELSE SelectSeq(sorted(order), listed)

ListSites ==
    \E base \in BaseStates : \E order \in iterdir(base) :
        Apply("list_sites", [base |-> base, order |-> order], list_sites(base, order))

NextListSites == ListSites

\* list_sites on every enumerated directory.
SpecListSites == InitHelpers /\ [][NextListSites]_vars

----------------------------------------------------------------------------
\* hosting.py: server-name normalization

\* Longest server name normalized, and most names in one argument.
MaxNormLen == 2
MaxNormCount == 2

\* Characters of the names to normalize: two letters and whitespace.
NormChars == {"a", "b", " "}

\* Every server_names argument up to these bounds.
NormalizeInputs ==
    {Str(s) : s \in Strings(NormChars, MaxNormLen)}
    \cup {List(l) : l \in Lists(Strings(NormChars, MaxNormLen), MaxNormCount)}

\* Lines 143-145 and 174-186: the normalized names and, when there is one,
\* the server_name value rendered from them.
NormalizeServerNames ==
    \E server_names \in NormalizeInputs :
        LET normalized == _normalize_server_names(server_names)
        IN  Apply("_normalize_server_names", server_names,
                  [names |-> normalized,
                   rendered |-> IF normalized = <<>> THEN <<>>
                                ELSE <<_render_config(normalized, <<"a">>, <<>>).server_name>>])

NextNormalize == NormalizeServerNames

\* Normalization of every enumerated server_names argument.
SpecNormalize == InitHelpers /\ [][NextNormalize]_vars

----------------------------------------------------------------------------
\* The default certificate name

\* Longest server name the certificate name is selected from.
MaxCertNameLen == 2

\* Characters of those names: a letter, the wildcard, the dot, the separator.
CertNameChars == {"a", "*", ".", "/"}

\* A server name as _normalize_server_names leaves it: not empty.
NormalizedNames == Strings(CertNameChars, MaxCertNameLen) \ {<<>>}

\* Second names of the two-name lists.
SecondNames == {<<"a">>, <<"*", ".", "a">>, <<"/">>, <<".">>, <<"*">>}

\* The normalized lists: one name, or a name and a different second name.
CertNameInputs ==
    {<<n>> : n \in NormalizedNames}
    \cup {<<p[1], p[2]>> : p \in {q \in NormalizedNames \X SecondNames : q[1] # q[2]}}

SelectCertificateName ==
    \E server_names \in CertNameInputs :
        Apply("_select_certificate_name", server_names,
              _select_certificate_name(server_names))

NextCertName == SelectCertificateName

\* The certificate name of every enumerated normalized list.
SpecCertName == InitHelpers /\ [][NextCertName]_vars

----------------------------------------------------------------------------
\* Type correctness of the model's state.
TypeOK ==
    /\ site \in SiteNameInputs
    /\ pc \in Between \cup {"c_mkdir", "c_write", "c_unlink", "c_link", "c_test",
                            "c_reload", "r_enabled", "r_available", "r_docroot",
                            "r_logs", "r_test", "r_reload"}
    /\ op \in {"none", "create", "remove"}
    /\ fs.docroot # "none" => fs.baseDir

----------------------------------------------------------------------------
\* Vocabulary of the properties

Ended == pc \in {"returned", "raised"}

\* The site name passes validation.
ValidName == _validate_site_name(site) = NoExc

\* The command ran to completion with exit code zero; otherwise it exited
\* nonzero, its binary was missing, or it timed out.
Succeeded(result) == result.returncode = <<0>> /\ result.error = <<>>

\* Every command the call has run succeeded.
CommandsOk == \A i \in 1..Len(cmds) : Succeeded(cmds[i])

\* None of the five artifacts of the site exists in f.
NoArtifacts(f) ==
    /\ f.enabled.kind = "none"
    /\ f.avail.kind = "none"
    /\ IF site = <<".", ".">> THEN ~f.baseDir ELSE f.docroot = "none"
    /\ ~f.alog
    /\ ~f.elog

\* The text create_hosting is to write for the call's arguments.
ExpectedText ==
    [server_name |-> join(names, <<" ">>),
     root        |-> site,
     ssl         |-> IF isCert THEN <<_select_certificate_name(names)>> ELSE <<>>]

\* A create_hosting that returned, then a remove_hosting that returned.
CreatedThenRemoved ==
    /\ pc = "returned" /\ op = "remove"
    /\ prev.op = "create" /\ prev.returned

\* C1 as stated: after a create_hosting that succeeds and a remove_hosting that
\* succeeds, the filesystem is what it was before the create.
C1_RoundTripIdentical == CreatedThenRemoved => fs = prev.pre

\* C1 amended: create-then-remove leaves no artifact of the site, keeps the
\* sites-available, sites-enabled and web-root-base directories that create
\* made, and changes nothing else; so the filesystem is the pre-create one
\* exactly when these three directories existed and no enabled entry, document
\* root or log file of the site did.
C1_RoundTrip ==
    CreatedThenRemoved =>
        /\ fs = [prev.pre EXCEPT !.availDir = TRUE, !.enabDir = TRUE, !.baseDir = TRUE,
                                 !.enabled = NoLink, !.docroot = "none",
                                 !.alog = FALSE, !.elog = FALSE]
        /\ prev.pre.avail = NoFile
        /\ NoArtifacts(fs)

C1_Witness == CreatedThenRemoved /\ fs = prev.pre

\* The call failed at symlink creation.
SymlinkFailed ==
    pc = "raised" /\ op = "create" /\ exc.msg = "failed to enable site"

\* C2 as stated: when symlink creation fails the filesystem is rolled back
\* to its state before the call and no command is run.
C2_FullRollback == SymlinkFailed => (fs = pre /\ cmds = <<>>)

\* C2 amended: when symlink creation fails the written configuration file is
\* deleted and no command is run; the directories the call made stay and
\* whatever was at the enabled path before the call is gone.
C2_SymlinkRollback ==
    SymlinkFailed =>
        /\ pre.avail = NoFile
        /\ fs = [pre EXCEPT !.availDir = TRUE, !.enabDir = TRUE, !.baseDir = TRUE,
                            !.enabled = NoLink,
                            !.docroot = IF site # <<".", ".">> /\ @ = "none"
                                        THEN "empty" ELSE @]
        /\ exc.type = "RuntimeError"
        /\ cmds = <<>>

C2_Witness == SymlinkFailed /\ pre.enabled.kind = "symlink" /\ ~pre.availDir

\* C3: in create_hosting a configuration test that is not ok removes the
\* enabled symlink, leaves the configuration file written by the call, raises
\* RuntimeError and the reload command is not run.
C3_TestFailure ==
    (op = "create" /\ Len(cmds) >= 1 /\ ~Succeeded(cmds[1])) =>
        /\ pc = "raised" /\ exc.type = "RuntimeError"
        /\ fs.enabled = NoLink
        /\ fs.avail = File(ExpectedText)
        /\ Len(cmds) = 1 /\ cmds[1].command = "test"

C3_Witness ==
    /\ op = "create" /\ pc = "raised" /\ Len(cmds) = 1
    /\ cmds[1].error # <<>> /\ fs.avail.kind = "file"

\* C4: in create_hosting a reload that is not ok after a passing test raises
\* RuntimeError and rolls nothing back: the configuration file and the
\* enabled symlink pointing at it remain.
C4_ReloadFailure ==
    (op = "create" /\ Len(cmds) = 2 /\ Succeeded(cmds[1]) /\ ~Succeeded(cmds[2])) =>
        /\ pc = "raised" /\ exc.type = "RuntimeError"
        /\ fs.avail = File(ExpectedText)
        /\ fs.enabled = Symlink("available")
        /\ cmds[2].command = "reload"

C4_Witness ==
    /\ op = "create" /\ pc = "raised" /\ Len(cmds) = 2
    /\ cmds[2].returncode = <<1>> /\ fs.enabled.kind = "symlink"

\* The site names the property rejects: blank after trimming, or holding a
\* path separator.
BlankName == \A i \in 1..Len(site) : site[i] \in Whitespace
HasSeparator == \E i \in 1..Len(site) : site[i] = "/"

\* C5: create_hosting and remove_hosting reject with ValueError every site
\* name that is blank after trimming or holds a path separator, before the
\* filesystem is touched and before any command is run.
C5_NameRejected ==
    (op # "none" /\ (BlankName \/ HasSeparator)) =>
        /\ pc = "raised" /\ exc.type = "ValueError"
        /\ fs = pre
        /\ cmds = <<>>

C5_Witness ==
    /\ op = "remove" /\ pc = "raised" /\ HasSeparator /\ ~BlankName
    /\ fs.avail.kind = "file" /\ prev.op = "create"

ArgCandidates ==
    IF args[1].kind = "str" THEN <<args[1].value>> ELSE args[1].value

\* Every candidate is blank (so also: there is none).
AllBlank ==
    \A i \in 1..Len(ArgCandidates) :
        \A j \in 1..Len(ArgCandidates[i]) : ArgCandidates[i][j] \in Whitespace

\* A list that repeats one name: two entries or more, all the same.
DuplicateOnly ==
    /\ args[1].kind = "list" /\ Len(args[1].value) >= 2
    /\ \A i \in 1..Len(args[1].value) : args[1].value[i] = args[1].value[1]

RejectedBeforeMutation ==
    pc = "raised" /\ exc.type = "ValueError" /\ fs = pre /\ cmds = <<>>

\* C7 as stated: create_hosting rejects with ValueError, before touching the
\* filesystem, every server_names that is an empty list, an all-blank list or
\* a duplicate-only list.
C7_RejectsDuplicateOnly ==
    (op = "create" /\ args # <<>> /\ (AllBlank \/ DuplicateOnly)) =>
        RejectedBeforeMutation

\* C7 amended: create_hosting rejects with ValueError, before touching the
\* filesystem, exactly the server_names whose entries are all blank (the empty
\* list among them); a list repeating a non-blank name passes this check and
\* is normalized to that one name.
C7_RejectsBlank ==
    (op = "create" /\ args # <<>>) =>
        /\ AllBlank => RejectedBeforeMutation
        /\ ~AllBlank => /\ exc.type # "ValueError"
                        /\ names # <<>>
        /\ (DuplicateOnly /\ ~AllBlank) => names = <<strip(args[1].value[1])>>

C7_Witness ==
    /\ op = "create" /\ args # <<>> /\ RejectedBeforeMutation
    /\ args[1].kind = "list" /\ Len(args[1].value) = 2
    /\ fs.avail.kind = "none"

\* C8: when create_hosting returns, the available-config file holds the
\* rendered text, the enabled path is a symlink to it, the document root
\* exists and the value returned is the result of the reload command.
C8_CreateSuccess ==
    (op = "create" /\ pc = "returned") =>
        /\ fs.avail = File(ExpectedText)
        /\ fs.enabled = Symlink("available")
        /\ fs.baseDir
        /\ site # <<".", ".">> => fs.docroot # "none"
        /\ Len(cmds) = 2 /\ cmds[2].command = "reload" /\ Succeeded(cmds[2])
        /\ ret = <<cmds[2]>>

C8_Witness ==
    /\ op = "create" /\ pc = "returned"
    /\ pre.enabled = StrayFile /\ pre.docroot = "none"

\* C9: a remove_hosting for a valid site name whose commands return ok
\* succeeds and leaves no artifact of the site, the first time and again when
\* repeated; it never fails over the state of the filesystem.
C9_RemoveTwice ==
    (op = "remove" /\ ValidName /\ Ended /\ CommandsOk) =>
        /\ pc = "returned"
        /\ NoArtifacts(fs)
        /\ (prev.op = "remove" /\ prev.returned) => fs = pre

\* C10: remove_hosting for a valid site name none of whose artifacts exists
\* changes nothing on the filesystem and, the commands returning ok, returns
\* without error.
C10_RemoveAbsent ==
    (op = "remove" /\ ValidName /\ NoArtifacts(pre)) =>
        /\ fs = pre
        /\ (Ended /\ CommandsOk) => (pc = "returned" /\ ret = <<cmds[2]>>)

C10_Witness ==
    /\ op = "remove" /\ pc = "returned" /\ NoArtifacts(pre)
    /\ fs = pre /\ pre.baseDir

\* C11: when remove_hosting returns, none of the five artifacts of the site
\* exists, whichever of them existed before, and the value returned is the
\* result of the reload command.
C11_RemoveSuccess ==
    (op = "remove" /\ pc = "returned") =>
        /\ NoArtifacts(fs)
        /\ Len(cmds) = 2 /\ cmds[2].command = "reload" /\ Succeeded(cmds[2])
        /\ ret = <<cmds[2]>>

C11_Witness ==
    /\ op = "remove" /\ pc = "returned"
    /\ pre.enabled.kind = "symlink" /\ pre.avail.kind = "file"
    /\ pre.docroot = "full" /\ pre.alog /\ pre.elog

\* C12: in remove_hosting a configuration test that is not ok raises
\* RuntimeError without the reload being run, and a reload that is not ok
\* after a passing test raises RuntimeError; either way the artifacts of the
\* site are gone and stay gone.
C12_RemoveCommandFailure ==
    /\ (op = "remove" /\ Len(cmds) >= 1 /\ ~Succeeded(cmds[1])) =>
          /\ pc = "raised" /\ exc.type = "RuntimeError"
          /\ Len(cmds) = 1 /\ cmds[1].command = "test"
          /\ NoArtifacts(fs)
    /\ (op = "remove" /\ Len(cmds) = 2 /\ ~Succeeded(cmds[2])) =>
          /\ pc = "raised" /\ exc.type = "RuntimeError"
          /\ cmds[2].command = "reload"
          /\ NoArtifacts(fs)

C12_Witness ==
    /\ op = "remove" /\ pc = "raised" /\ Len(cmds) = 1
    /\ cmds[1].error # <<>> /\ pre.avail.kind = "file" /\ pre.docroot = "full"

\* The states a failed create_hosting may leave.
CreateFailed == op = "create" /\ pc = "raised"
Unchanged == fs = pre
ConfigWrittenNotEnabled == fs.avail.kind = "file" /\ fs.enabled.kind = "none"
EnabledNotReloaded == fs.avail.kind = "file" /\ fs.enabled = Symlink("available")
ConfigRolledBack ==
    /\ fs.avail.kind = "none" /\ fs.enabled.kind = "none"
    /\ fs.availDir /\ fs.enabDir /\ fs.baseDir

----------------------------------------------------------------------------
\* Vocabulary of the certificate-inspection properties

\* A line with everything from the first '#' removed.
BeforeComment(line) ==
    LET marks == {i \in 1..Len(line) : line[i] = "#"}
    IN  IF marks = {} THEN line ELSE SubSeq(line, 1, Least(marks) - 1)

\* A text without its leading and trailing whitespace.
Trimmed(s) ==
    LET solid == {i \in 1..Len(s) : s[i] \notin Whitespace}
    IN  IF solid = {} THEN <<>> ELSE SubSeq(s, Least(solid), Greatest(solid))

\* The line begins, comment and surrounding whitespace aside, with the
\* directive name followed by a space.
IsDirectiveLine(line) ==
    LET t == Trimmed(BeforeComment(line))
    IN  /\ Len(t) > Len(Keyword)
        /\ \A i \in 1..Len(Keyword) : t[i] = Keyword[i]
        /\ t[Len(Keyword) + 1] = " "

\* The rest of a directive line, trimmed, less one trailing ';', trimmed.
DirectiveValue(line) ==
    LET t == Trimmed(BeforeComment(line))
        rest == Trimmed(SubSeq(t, Len(Keyword) + 2, Len(t)))
    IN  IF rest # <<>> /\ rest[Len(rest)] = ";"
        THEN Trimmed(SubSeq(rest, 1, Len(rest) - 1))
        ELSE rest

\* The directive lines of a configuration, in file order; none when the
\* configuration is no readable text.
DirectiveLines(state) ==
    IF state.kind = "text" THEN SelectSeq(state.lines, IsDirectiveLine) ELSE <<>>

\* max(1, N), the number of statuses one configuration accounts for.
GroupLen(state) ==
    IF state.kind # "missing" /\ DirectiveLines(state) # <<>>
    THEN Len(DirectiveLines(state)) ELSE 1

\* The statuses of one configuration path are what its state calls for.
GroupOk(config_path, statuses) ==
    LET ds == DirectiveLines(config_path.state)
    IN  /\ \A i \in 1..Len(statuses) : statuses[i].site = config_path.name
        /\ IF config_path.state.kind = "missing"
           THEN /\ statuses[1].error = <<"configuration path does not exist">>
                /\ statuses[1].certificate = <<>>
           ELSE IF ds = <<>>
           THEN /\ statuses[1].error = <<"no ssl_certificate directive found">>
                /\ statuses[1].certificate = <<>>
           ELSE \A i \in 1..Len(ds) :
                    statuses[i].certificate = <<Path(DirectiveValue(ds[i]))>>

RECURSIVE GroupsMatch(_, _)
\* statuses is the concatenation, in order, of one group per configuration.
GroupsMatch(sites, statuses) ==
    IF sites = <<>> THEN statuses = <<>>
    ELSE LET n == GroupLen(Head(sites).state)
         IN  /\ Len(statuses) >= n
             /\ GroupOk(Head(sites), SubSeq(statuses, 1, n))
             /\ GroupsMatch(Tail(sites), SubSeq(statuses, n + 1, Len(statuses)))

\* C14 as stated: check_certificate_status returns for every sequence of
\* configuration paths, and what it returns is the concatenation in input
\* order of one group per configuration: one "configuration path does not
\* exist" status for a missing path, one "no ssl_certificate directive found"
\* status for an existing configuration without directive, N statuses in
\* file order for one with N directives.
C14_GroupPerConfig ==
    fn = "check_certificate_status" =>
        /\ output.exc = NoExc
        /\ GroupsMatch(input.sites, output.value)

\* C15: on a readable configuration _extract_certificate_paths returns one
\* path per directive line (a line that, with everything from the first '#'
\* removed and trimmed, begins with "ssl_certificate "), in file order and
\* without deduplication; each path is made from the rest of the line,
\* trimmed, with one trailing ';' removed and trimmed again.
C15_ExtractDirectives ==
    (fn = "_extract_certificate_paths" /\ input.kind = "text") =>
        LET ds == DirectiveLines(input)
        IN  /\ output.exc = NoExc
            /\ Len(output.value) = Len(ds)
            /\ \A i \in 1..Len(ds) : output.value[i] = Path(DirectiveValue(ds[i]))

C15_Witness ==
    /\ fn = "_extract_certificate_paths" /\ input.kind = "text"
    /\ Len(input.lines) = 2 /\ input.lines[1] # input.lines[2]
    /\ output.value = << <<"p">>, <<"p">> >>

\* C16 as stated: directive extraction does not fail on an existing
\* configuration path; a configuration that cannot be read or is not valid
\* text yields no certificate path, and check_certificate_status reports
\* "no ssl_certificate directive found" for it.
C16_ExtractNeverFails ==
    /\ (fn = "_extract_certificate_paths" /\ input.kind \in {"unreadable", "nottext"}) =>
          output = Returned(<<>>)
    /\ (fn = "check_certificate_status" /\ Len(input.sites) = 1
          /\ input.sites[1].state.kind \in {"unreadable", "nottext"}) =>
          /\ output.exc = NoExc
          /\ Len(output.value) = 1
          /\ output.value[1].error = <<"no ssl_certificate directive found">>

\* C17 as stated: _build_certificate_status never raises; it reports
\* exists=false, with error "certificate file does not exist", only when the
\* certificate file is missing; for a file the decoder rejects it reports
\* exists=true, no not-before, not-after or days-remaining, and the decoder's
\* message as error.
C17_BuildNeverRaises ==
    fn = "_build_certificate_status" =>
        /\ output.exc = NoExc
        /\ ~output.value.exists =>
              /\ input.cert.kind \in {"missing", "vanished"}
              /\ output.value.error = <<"certificate file does not exist">>
        /\ input.cert.kind = "undecodable" =>
              /\ output.value.exists
              /\ output.value.not_before = <<>> /\ output.value.not_after = <<>>
              /\ output.value.days_remaining = <<>>
              /\ output.value.error = <<input.cert.msg>>

\* strptime accepts the timestamp string.
Parses(value) == value # <<>> /\ value[1].kind = "time"

\* C18: for a decoded certificate days-remaining is the floor of (not-after
\* minus now) in seconds over 86400, a signed integer that is negative for
\* every expired certificate, and it is absent exactly when not-after is
\* absent; a timestamp string that is absent or does not parse leaves its own
\* field absent, the other field is not affected, and no error is set.
\* Instants are whole seconds.
C18_DaysRemaining ==
    (fn = "_build_certificate_status" /\ input.cert.kind = "decoded") =>
        LET status == output.value
            delta == input.cert.notAfter[1].t - input.now
        IN  /\ output.exc = NoExc
            /\ status.exists /\ status.error = <<>>
            /\ status.not_before =
                 (IF Parses(input.cert.notBefore) THEN <<input.cert.notBefore[1].t>> ELSE <<>>)
            /\ status.not_after =
                 (IF Parses(input.cert.notAfter) THEN <<input.cert.notAfter[1].t>> ELSE <<>>)
            /\ (status.days_remaining = <<>>) <=> (status.not_after = <<>>)
            /\ Parses(input.cert.notAfter) =>
                 /\ status.days_remaining[1] * SecondsPerDay <= delta
                 /\ delta < (status.days_remaining[1] + 1) * SecondsPerDay
                 /\ (delta < 0 => status.days_remaining[1] < 0)

C18_Witness ==
    /\ fn = "_build_certificate_status" /\ input.cert.kind = "decoded"
    /\ input.cert.notBefore = <<GarbageText>>
    /\ Parses(input.cert.notAfter)
    /\ input.cert.notAfter[1].t - input.now = -1
    /\ output.value.days_remaining = <<-1>>
    /\ output.value.not_before = <<>>

\* C19 as stated: create_hosting accepts caller-supplied certificate and key
\* paths: a call is never rejected for naming them.
C19_ExplicitPathsAccepted ==
    (op = "create" /\ pc = "raised" /\ exc.type = "TypeError") =>
        input \cap CertificateKeywords = {}

\* A server name without its leading '*' and '.' characters.
Unwild(name) ==
    LET solid == {i \in 1..Len(name) : name[i] \notin {"*", "."}}
    IN  IF solid = {} THEN <<>> ELSE SubSeq(name, Least(solid), Len(name))

\* A name with every '/' and '*' left out.
Sanitized(name) == SelectSeq(name, LAMBDA c : c \notin {"/", "*"})

\* C20 as stated: the default certificate directory name of a normalized
\* list is the first server name that is not empty once its leading "*."
\* markers are stripped, with every '/' and '*' removed, and the literal
\* "default" when every server name strips to empty; it is never empty and
\* holds no '/' and no '*'.
C20_CertificateName ==
    fn = "_select_certificate_name" =>
        LET usable == SelectSeq(input, LAMBDA n : Unwild(n) # <<>>)
        IN  /\ output # <<>>
            /\ \A i \in 1..Len(output) : output[i] \notin {"/", "*"}
            /\ output = IF usable = <<>> THEN DefaultName
                        ELSE Sanitized(Unwild(usable[1]))

\* C21 as stated: the command runner never raises when the command cannot be
\* located or started or exceeds its timeout.  Every result without exit
\* code carries an internal error and is not ok (empty output for a missing
\* binary), and a call of create_hosting or remove_hosting that ends at a
\* command ends with the RuntimeError of a failed test or reload, never with
\* an exception of the runner.
C21_RunnerNeverRaises ==
    /\ \A i \in 1..Len(cmds) :
          /\ (cmds[i].returncode = <<>>) <=> (cmds[i].error # <<>>)
          /\ cmds[i].error # <<>> => ~Succeeded(cmds[i])
          /\ cmds[i].error = <<"command not found">> =>
                cmds[i].stdout = "" /\ cmds[i].stderr = ""
    /\ (pc = "raised" /\ cmds # <<>> /\ cmds[Len(cmds)].error # <<>>) =>
          exc.type = "RuntimeError"
    /\ exc # StartFailure

\* One name comes before another in code-point order.
Precedes(a, b) ==
    \E k \in 1..(Len(a) + 1) :
        /\ k <= Len(b)
        /\ \A i \in 1..(k - 1) : a[i] = b[i]
        /\ (k = Len(a) + 1 \/ Code(a[k]) < Code(b[k]))

\* C22: list_sites returns the empty sequence when the target directory does
\* not exist, and otherwise exactly the direct entries that are regular files
\* or symbolic links, a link staying the link whatever it points at, in
\* ascending order of name.
C22_ListSites ==
    fn = "list_sites" =>
        LET wanted == IF input.base.kind = "dir"
                      THEN {e \in input.base.entries :
                               e.kind = "file" \/ e.kind = "link"}
                      ELSE {}
        IN  /\ {output[i] : i \in 1..Len(output)} = wanted
            /\ Len(output) = Cardinality(wanted)
            /\ \A i \in 1..(Len(output) - 1) : Precedes(output[i].name, output[i + 1].name)
            /\ input.base.kind = "missing" => output = <<>>

C22_Witness ==
    /\ fn = "list_sites"
    /\ Cardinality(input.base.entries) = 2
    /\ Len(output) = 2
    /\ output[1] # input.order[1]
    /\ \E i \in 1..2 : output[i].kind = "link" /\ output[i].target = "none"

RECURSIVE SpaceJoined(_)
\* The names written one after another with one space between neighbours.
SpaceJoined(ns) ==
    IF ns = <<>> THEN <<>>
    ELSE IF Len(ns) = 1 THEN ns[1]
    ELSE SpaceJoined(SubSeq(ns, 1, Len(ns) - 1)) \o <<" ">> \o ns[Len(ns)]

\* C23: normalization takes one name or several and returns the trimmed
\* names, without the empty ones and without repetitions of a name already
\* seen (compared after trimming), in first-seen order; the result has no
\* duplicate and no blank entry, normalizing it again returns it unchanged,
\* and the rendered server_name value is the names joined by single spaces.
C23_Normalization ==
    fn = "_normalize_server_names" =>
        LET given == IF input.kind = "str" THEN <<input.value>> ELSE input.value
            first == {i \in 1..Len(given) :
                         /\ Trimmed(given[i]) # <<>>
                         /\ \A j \in 1..(i - 1) : Trimmed(given[j]) # Trimmed(given[i])}
            result == output.names
        IN  /\ Len(result) = Cardinality(first)
            /\ \A r \in 1..Len(result) :
                  \E i \in first :
                      /\ Cardinality({j \in first : j < i}) = r - 1
                      /\ result[r] = Trimmed(given[i])
            /\ \A r, q \in 1..Len(result) : result[r] = result[q] => r = q
            /\ \A r \in 1..Len(result) : result[r] # <<>> /\ Trimmed(result[r]) = result[r]
            /\ _normalize_server_names(List(result)) = result
            /\ result # <<>> => output.rendered = <<SpaceJoined(result)>>

C23_Witness ==
    /\ fn = "_normalize_server_names" /\ input.kind = "list"
    /\ input.value = << <<"b", " ">>, <<" ", "b">> >>
    /\ output.names = << <<"b">> >>
    /\ output.rendered = << <<"b">> >>

\* How far a call has come: the steps in program order, the end last.
Position(p) ==
    CASE p \in {"c_mkdir", "r_enabled"} -> 1
      [] p \in {"c_write", "r_available"} -> 2
      [] p \in {"c_unlink", "r_docroot"} -> 3
      [] p \in {"c_link", "r_logs"} -> 4
      [] p \in {"c_test", "r_test"} -> 5
      [] p \in {"c_reload", "r_reload"} -> 6
      [] OTHER -> 7

\* A step of the running call, and a step that invokes a command.
CallStep == pc \notin Between
Invokes(command) ==
    CallStep /\ Len(cmds') = Len(cmds) + 1 /\ cmds'[Len(cmds')].command = command

\* C24: every execution of create_hosting and remove_hosting is a linear
\* sequence: each step moves forward in program order, the config test is
\* invoked at most once and the reload at most once, the reload only after a
\* config test that returned ok, the test of create only with the config file
\* written and the enabled symlink made, the test of remove only with every
\* artifact deleted.
C24_LinearSequence ==
    [][/\ CallStep => /\ Position(pc') > Position(pc)
                      /\ op' = op
                      /\ cmds' = cmds \/ Invokes("test") \/ Invokes("reload")
       /\ Invokes("test") =>
             /\ cmds = <<>>
             /\ op = "create" =>
                   fs.avail.kind = "file" /\ fs.enabled = Symlink("available")
             /\ op = "remove" => NoArtifacts(fs)
       /\ Invokes("reload") =>
             /\ Len(cmds) = 1 /\ cmds[1].command = "test" /\ Succeeded(cmds[1])]_vars

C24_Witness ==
    /\ op = "create" /\ pc = "raised" /\ Len(cmds) = 2
    /\ cmds[1].command = "test" /\ cmds[2].command = "reload"
    /\ ~Succeeded(cmds[2])

\* C25 as stated: for every site name that passes validation the document
\* root is a direct child of the web-root base, and remove_hosting never
\* deletes the web-root base itself or anything outside the site's directory:
\* a web-root base that was there when remove_hosting started is still there.
C25_ConfinedToSite ==
    (op = "remove" /\ ValidName /\ pre.baseDir) => fs.baseDir

\* C26 as stated: after a create_hosting that failed at the config test or
\* at the reload, every later create_hosting for the site fails with
\* FileExistsError and changes nothing, until a remove_hosting has run; the
\* create_hosting after that remove_hosting passes the collision check.
C26_BlockedByFileExists ==
    /\ (op = "create" /\ prev.blocked) =>
          pc = "raised" /\ exc.type = "FileExistsError" /\ fs = pre
    /\ (op = "create" /\ prev.op = "remove") => exc.type # "FileExistsError"

\* C26 amended: after a create_hosting that failed at the config test or at
\* the reload, every later create_hosting for the site fails and changes
\* nothing, until a remove_hosting has run: with ValueError when its
\* server_names hold no non-empty name, that check coming first, and with
\* FileExistsError otherwise; the create_hosting after that remove_hosting
\* passes the collision check.
C26_BlockedUntilRemove ==
    /\ (op = "create" /\ prev.blocked) =>
          /\ pc = "raised" /\ fs = pre /\ cmds = <<>>
          /\ exc.type = IF names = <<>> THEN "ValueError" ELSE "FileExistsError"
    /\ (op = "create" /\ prev.op = "remove") => exc.type # "FileExistsError"

C26_Witness ==
    /\ op = "create" /\ prev.blocked /\ prev.op = "create"
    /\ pc = "raised" /\ exc.type = "FileExistsError"
    /\ fs.enabled = Symlink("available")

\* C27: starting with no artifact of the site, in every state any sequence
\* of create_hosting and remove_hosting calls reaches, between the steps of a
\* call and after a failure as well, the enabled path holds nothing or a
\* symlink to the available-config file, and that file exists.
C27_EnabledPointsAtConfig ==
    \/ fs.enabled.kind = "none"
    \/ fs.enabled = Symlink("available") /\ fs.avail.kind = "file"

C27_Witness ==
    /\ op = "create" /\ pc = "raised" /\ Len(cmds) = 2
    /\ fs.enabled = Symlink("available") /\ fs.avail.kind = "file"
    /\ prev.op = "remove"

====
